---- MODULE Spec2Model ----
(***************************************************************************)
(* Model of the click parameter types of toggl/cli/types.py:               *)
(*   ResourceType          (entity lookup over an ordered field list)      *)
(*   SetType / ModifierSetType / Modifier                                  *)
(*   FieldsType            (literal list or +/- diff over the default)     *)
(*   DateTimeDurationType  (the duration shorthand regex)                  *)
(* A Python str is a sequence of one-character strings; None, str and int  *)
(* values are records tagged by "kind" so that they can be compared.       *)
(***************************************************************************)
EXTENDS Integers, Sequences, FiniteSets

VARIABLES
    pc,        \* where the running convert() call stands
    self,      \* the ParamType instance convert() is called on
    arg,       \* the `value` argument exactly as the caller passed it
    param,     \* the `param` argument (its default), or None
    value,     \* ResourceType.convert: the local name `value` (reassigned)
    idx,       \* ResourceType.convert: position of the for loop in _fields_lookup
    calls,     \* the calls made to resource_cls.objects.get, in order
    warnings,  \* number of logger.warning calls
    result     \* what convert() returned or raised

vars == <<pc, self, arg, param, value, idx, calls, warnings, result>>

(***************************************************************************)
(* Bounds of the model.                                                    *)
(***************************************************************************)
MaxTokenLen == 2
MaxFields == 3
MaxSetLen == 5
MaxFieldsLen == 5
MaxDurationLen == 5

(***************************************************************************)
(* Python values.                                                          *)
(***************************************************************************)
None == [kind |-> "none", text |-> <<>>]
Str(s) == [kind |-> "str", text |-> s]
Pending == [kind |-> "pending"]

RECURSIVE StringsUpTo(_, _)
StringsUpTo(chars, n) ==
    IF n = 0 THEN {<<>>}
    ELSE LET shorter == StringsUpTo(chars, n - 1)
         IN  shorter \cup {Append(s, c) : s \in {t \in shorter : Len(t) = n - 1}, c \in chars}

Digits == {"0", "1", "2", "3", "4", "5", "6", "7", "8", "9"}

IsDigits(s) == Len(s) > 0 /\ \A k \in 1..Len(s) : s[k] \in Digits

RECURSIVE DropLeadingZeros(_)
DropLeadingZeros(s) ==
    IF Len(s) > 1 /\ Head(s) = "0" THEN DropLeadingZeros(Tail(s)) ELSE s

\* int(value): an int stays itself; a str of decimal digits becomes the int,
\* whose text is the canonical decimal form; anything else is a ValueError.
IntOf(v) ==
    IF v.kind = "int" THEN v
    ELSE IF v.kind = "str" /\ IsDigits(v.text)
         THEN [kind |-> "int", text |-> DropLeadingZeros(v.text)]
         ELSE [kind |-> "ValueError", text |-> v.text]

\* '{}'.format(value)
Format(v) == v.text

Whitespace == {" ", "\t", "\n"}

\* str.strip()
RECURSIVE Strip(_)
Strip(s) ==
    IF s = <<>> THEN s
    ELSE IF Head(s) \in Whitespace THEN Strip(Tail(s))
    ELSE IF s[Len(s)] \in Whitespace THEN Strip(SubSeq(s, 1, Len(s) - 1))
    ELSE s

\* str.split(sep) for a one-character sep: always at least one piece.
RECURSIVE Split(_, _)
Split(s, sep) ==
    IF \A k \in 1..Len(s) : s[k] # sep THEN <<s>>
    ELSE LET k == CHOOSE j \in 1..Len(s) : s[j] = sep /\ \A m \in 1..(j - 1) : s[m] # sep
         IN  <<SubSeq(s, 1, k - 1)>> \o Split(SubSeq(s, k + 1, Len(s)), sep)

Range(seq) == {seq[k] : k \in 1..Len(seq)}

\* The orders in which a Python set can be iterated.
Orders(S) == {o \in [1..Cardinality(S) -> S] : Range(o) = S}

(***************************************************************************)
(* ResourceType                                                            *)
(***************************************************************************)
TokenChars == {"0", "7", "b"}
FieldNames == {"id", "name", "email"}
Entities == {"e1", "e2"}
ResourceName == "Project"

FieldSpecs ==
    {f \in UNION {[1..n -> FieldNames] : n \in 1..MaxFields} :
        \A j, k \in 1..Len(f) : j # k => f[j] # f[k]}

InitResource ==
    /\ pc = "loop"
    /\ self \in {[type |-> "ResourceType", fields_lookup |-> f] : f \in FieldSpecs}
    /\ arg \in {Str(s) : s \in StringsUpTo(TokenChars, MaxTokenLen)}
    /\ param = None
    /\ value = arg
    /\ idx = 1
    /\ calls = <<>>
    /\ warnings = 0
    /\ result = Pending

\* Handle with the early return lost: a found object does not end the loop.
HandleNoShortCircuit(res) ==
    IF res = "many" THEN [pc |-> "loop", warned |-> 1]
    ELSE [pc |-> "loop", warned |-> 0]

\* Handle with the except clause lost: the multiple-results exception escapes.
HandleManyFatal(res) ==
    IF res \in Entities THEN [pc |-> "returned", warned |-> 0]
    ELSE IF res = "many" THEN [pc |-> "raised", warned |-> 0]
    ELSE [pc |-> "loop", warned |-> 0]

\* Lines 118-126: an object is returned at once, the multiple-results
\* exception is caught and logged, None falls through to the next field.
Handle(res) ==
    IF res \in Entities THEN [pc |-> "returned", warned |-> 0]
    ELSE IF res = "many" THEN [pc |-> "loop", warned |-> 1]
    ELSE [pc |-> "loop", warned |-> 0]

\* Lines 112-116: the id field rebinds `value` to int(value) before the lookup.
Coerced(field_name, v) == IF field_name = "id" THEN IntOf(v) ELSE v

\* One pass of the for loop in which int(value) raised ValueError: continue.
SkipField ==
    /\ pc = "loop"
    /\ idx <= Len(self.fields_lookup)
    /\ Coerced(self.fields_lookup[idx], value).kind = "ValueError"
    /\ idx' = idx + 1
    /\ UNCHANGED <<pc, self, arg, param, value, calls, warnings, result>>

\* One pass of the for loop that reaches objects.get, answered by res.
Lookup(res) ==
    /\ pc = "loop"
    /\ idx <= Len(self.fields_lookup)
    /\ LET field_name == self.fields_lookup[idx]
           v == Coerced(field_name, value)
           h == Handle(res)
       IN  /\ v.kind # "ValueError"
           /\ value' = v
           /\ calls' = Append(calls, [idx |-> idx, field |-> field_name, arg |-> v, res |-> res])
           /\ pc' = h.pc
           /\ warnings' = warnings + h.warned
           /\ idx' = IF h.pc = "loop" THEN idx + 1 ELSE idx
           /\ result' = IF h.pc = "returned" THEN [kind |-> "entity", obj |-> res]
                        ELSE IF h.pc = "raised" THEN [kind |-> "TogglMultipleResultsException"]
                        ELSE result
    /\ UNCHANGED <<self, arg, param>>

LookupNone == Lookup("none")
LookupOne == \E e \in Entities : Lookup(e)
LookupMany == Lookup("many")

\* Line 128: the loop ran out of fields.
FailUnknown ==
    /\ pc = "loop"
    /\ idx > Len(self.fields_lookup)
    /\ pc' = "failed"
    /\ result' = [kind |-> "fail", message |-> "Unknown {} under specification '{}'!",
                  name |-> ResourceName, token |-> Format(value)]
    /\ UNCHANGED <<self, arg, param, value, idx, calls, warnings>>

NextResource == SkipField \/ LookupNone \/ LookupOne \/ LookupMany \/ FailUnknown

Spec == InitResource /\ [][NextResource]_vars

(***************************************************************************)
(* Claims about ResourceType.convert                                       *)
(***************************************************************************)
IsLastCall(k) == k = Len(calls)

\* C1: the lookups are issued in the order of the field spec, and as soon as
\* one of them answers with exactly one entity, convert returns that entity:
\* that lookup is the last one, no later field is looked up.
C1_ShortCircuit ==
    /\ \A k \in 1..Len(calls) :
          /\ calls[k].field = self.fields_lookup[calls[k].idx]
          /\ \A j \in 1..(k - 1) : calls[j].idx < calls[k].idx
    /\ \A k \in 1..Len(calls) :
          calls[k].res \in Entities =>
             /\ IsLastCall(k)
             /\ pc = "returned"
             /\ result = [kind |-> "entity", obj |-> calls[k].res]

\* C1 witness: convert returned the entity of a field that is not the last
\* of the spec, after an earlier lookup; the later fields were never tried.
C1_Witness ==
    /\ pc = "returned"
    /\ Len(calls) >= 2
    /\ calls[Len(calls)].idx < Len(self.fields_lookup)

\* C2: whenever the fields are exhausted, the failure names the entity type
\* and the raw token exactly as the caller passed it.
C2_FailureNamesRawToken ==
    pc = "failed" =>
        /\ result.kind = "fail"
        /\ result.name = ResourceName
        /\ result.token = arg.text

\* C9: a lookup that reports several results is logged as a warning and the
\* loop goes on; a later unique result is returned, and the unknown-entity
\* failure is raised only once every field has been tried.
C9_AmbiguousNotFatal ==
    /\ warnings = Cardinality({k \in 1..Len(calls) : calls[k].res = "many"})
    /\ \A k \in 1..Len(calls) :
          calls[k].res = "many" =>
             /\ pc \in {"loop", "returned", "failed"}
             /\ idx > calls[k].idx
    /\ pc = "failed" => idx = Len(self.fields_lookup) + 1 /\ result.kind = "fail"
    /\ pc = "returned" =>
          /\ Len(calls) > 0
          /\ result.kind = "entity"
          /\ result.obj = calls[Len(calls)].res
          /\ result.obj \in Entities

\* C9 witness: an entity was returned after an earlier field was ambiguous.
C9_Witness ==
    /\ pc = "returned"
    /\ \E k \in 1..Len(calls) : calls[k].res = "many" /\ ~IsLastCall(k)

\* C10: every lookup for a field other than id receives the raw token as the
\* caller passed it.
C10_LookupGetsRawToken ==
    \A k \in 1..Len(calls) : calls[k].field # "id" => calls[k].arg = arg

(***************************************************************************)
(* SetType, Modifier, ModifierSetType                                      *)
(***************************************************************************)
SetChars == {"a", "+", "-", ",", " "}

NoneResult == [kind |-> "none"]
SetResult(items) == [kind |-> "set", items |-> items]

\* SetType.convert with `if not value`: the empty string gives None too.
SetConvertFalsyNone(v) ==
    IF v = None \/ v.text = <<>> THEN NoneResult
    ELSE SetResult({Strip(x) : x \in Range(Split(v.text, ","))})

\* SetType.convert, lines 139-143.
SetConvert(v) ==
    IF v = None THEN NoneResult
    ELSE SetResult({Strip(x) : x \in Range(Split(v.text, ","))})

\* is_modifiers_value, line 168, with the generator consumed in the order
\* `order`: any() stops at the first true element, value[0] of an empty
\* string raises IndexError.
RECURSIVE AnyNotSigned(_)
AnyNotSigned(order) ==
    IF order = <<>> THEN "False"
    ELSE IF Head(order) = <<>> THEN "IndexError"
    ELSE IF Head(order)[1] # "+" /\ Head(order)[1] # "-" THEN "True"
    ELSE AnyNotSigned(Tail(order))

\* The loop of lines 176-191 with a cross-check: a removed token is not added.
ModifierOfRemovalWins(parsed) ==
    LET removed == {Tail(m) : m \in {x \in parsed : x[1] = "-"}}
    IN  [kind |-> "modifier",
         add_set |-> {Tail(m) : m \in {x \in parsed : x[1] = "+"}} \ removed,
         remove_set |-> removed]

\* The loop of lines 176-191 over tokens that all start with a sign:
\* Modifier.add(modifier_value[1:]) for '+', Modifier.remove(...) for '-'.
ModifierOf(parsed) ==
    [kind |-> "modifier",
     add_set |-> {Tail(m) : m \in {x \in parsed : x[1] = "+"}},
     remove_set |-> {Tail(m) : m \in {x \in parsed : x[1] = "-"}}]

\* ModifierSetType.convert, lines 170-191, iterating the parsed set in `order`.
ModifierConvert(parsed, order) ==
    LET any == AnyNotSigned(order)
    IN  IF any = "IndexError" THEN [kind |-> "IndexError"]
        ELSE IF any = "True" THEN parsed
        ELSE ModifierOf(parsed.items)

InitSet ==
    /\ pc = "call"
    /\ self \in {[type |-> "SetType"], [type |-> "ModifierSetType"]}
    /\ arg \in {None} \cup {Str(s) : s \in StringsUpTo(SetChars, MaxSetLen)}
    /\ param = None
    /\ value = arg
    /\ idx = 0
    /\ calls = <<>>
    /\ warnings = 0
    /\ result = Pending

SetTypeConvert ==
    /\ pc = "call"
    /\ self.type = "SetType"
    /\ result' = SetConvert(value)
    /\ pc' = "done"
    /\ UNCHANGED <<self, arg, param, value, idx, calls, warnings>>

\* super().convert returned None: iterating None raises TypeError.
ModifierSetTypeConvertNone ==
    /\ pc = "call"
    /\ self.type = "ModifierSetType"
    /\ SetConvert(value) = NoneResult
    /\ result' = [kind |-> "TypeError"]
    /\ pc' = "done"
    /\ UNCHANGED <<self, arg, param, value, idx, calls, warnings>>

ModifierSetTypeConvert ==
    /\ pc = "call"
    /\ self.type = "ModifierSetType"
    /\ LET parsed == SetConvert(value)
       IN  /\ parsed.kind = "set"
           /\ \E order \in Orders(parsed.items) :
                 result' = ModifierConvert(parsed, order)
    /\ pc' = "done"
    /\ UNCHANGED <<self, arg, param, value, idx, calls, warnings>>

NextSet == SetTypeConvert \/ ModifierSetTypeConvertNone \/ ModifierSetTypeConvert

SpecSet == InitSet /\ [][NextSet]_vars

(***************************************************************************)
(* Claims about SetType and ModifierSetType                                *)
(***************************************************************************)
\* The token set of a raw string: its comma-separated pieces, trimmed.
Tokens(s) == {Strip(x) : x \in Range(Split(s, ","))}

Signed(t) == t # <<>> /\ t[1] \in {"+", "-"}

\* C4 (as stated): the additions and the removals of a returned Modifier are
\* disjoint, for every raw input.
C4_Disjoint ==
    (pc = "done" /\ result.kind = "modifier") =>
        result.add_set \cap result.remove_set = {}

\* C4 (amended): a token is in both sets of a returned Modifier exactly when
\* the raw input lists it under '+' and under '-'; otherwise the sets are
\* disjoint.
C4_SharedIffListedTwice ==
    (pc = "done" /\ result.kind = "modifier") =>
        result.add_set \cap result.remove_set =
            {Tail(t) : t \in {x \in Tokens(arg.text) :
                                 /\ Signed(x)
                                 /\ x[1] = "+"
                                 /\ (<<"-">> \o Tail(x)) \in Tokens(arg.text)}}

\* C4 witness: a returned Modifier whose two sets share a non-empty token.
C4_Witness ==
    /\ pc = "done"
    /\ result.kind = "modifier"
    /\ \E t \in result.add_set \cap result.remove_set : t # <<>>

\* C5: the result is a Modifier iff every token is non-empty and signed (the
\* additions are the '+' tokens and the removals the '-' tokens, sign
\* stripped); otherwise it is the literal token set; the parser never fails.
C5_Classification ==
    (pc = "done" /\ self.type = "ModifierSetType" /\ arg # None) =>
        LET parsed == Tokens(arg.text)
        IN  IF \A t \in parsed : Signed(t)
            THEN result = [kind |-> "modifier",
                           add_set |-> {Tail(t) : t \in {x \in parsed : x[1] = "+"}},
                           remove_set |-> {Tail(t) : t \in {x \in parsed : x[1] = "-"}}]
            ELSE result = SetResult(parsed)

\* C7 (as stated): absent input and the empty string both give "no value".
C7_EmptyAndAbsentAreNoValue ==
    (pc = "done" /\ self.type = "SetType" /\ (arg = None \/ arg.text = <<>>)) =>
        result = NoneResult

\* C7 (amended): absent input gives "no value" and nothing else does; the
\* empty string gives the set holding the empty token; neither fails.
C7_NoValueIffAbsent ==
    (pc = "done" /\ self.type = "SetType") =>
        /\ result.kind \in {"none", "set"}
        /\ result.kind = "none" <=> arg = None
        /\ (arg # None /\ arg.text = <<>>) => result = SetResult({<<>>})

\* C7 witness: the Set Parser has converted the empty string.
C7_Witness ==
    /\ pc = "done"
    /\ self.type = "SetType"
    /\ arg = Str(<<>>)
    /\ result.kind = "set"

(***************************************************************************)
(* FieldsType                                                              *)
(***************************************************************************)
FieldChars == {"a", "b", "+", "-", ",", " "}

\* resource_cls.__fields__: the names of the entity's fields.
Schema == {<<"a">>, <<"b">>}

\* param.default of the options that use FieldsType; param may be None.
Defaults ==
    {None, Str(<<"a">>), Str(<<"a", ",", "b">>), Str(<<"b", ",", " ", "a">>),
     Str(<<"b", ",", "a", ",", "b">>)}

\* An OrderedDict used as an ordered set is the sequence of its keys.
\* out[key] = None moving an existing key to the end.
OrderedSetMoveToEnd(out, key) == Append(SelectSeq(out, LAMBDA k : k # key), key)

\* out[key] = None: a new key goes to the end, an existing key keeps its place.
OrderedSet(out, key) == IF key \in Range(out) THEN out ELSE Append(out, key)

\* del out[key], the KeyError swallowed.
OrderedDel(out, key) == SelectSeq(out, LAMBDA k : k # key)

\* OrderedDict(pairs)
RECURSIVE OrderedFrom(_)
OrderedFrom(keys) ==
    IF keys = <<>> THEN <<>>
    ELSE OrderedSet(OrderedFrom(SubSeq(keys, 1, Len(keys) - 1)), keys[Len(keys)])

\* str.replace(old, '') for a one-character old: every occurrence goes.
Replace(s, old) == SelectSeq(s, LAMBDA c : c # old)

StripAll(pieces) == [k \in 1..Len(pieces) |-> Strip(pieces[k])]

Fail(message, field) == [kind |-> "fail", message |-> message, field |-> field]

\* The for loop of _diff_mode, lines 214-236, over the pieces still to do.
RECURSIVE DiffLoop(_, _)
DiffLoop(out, modifier_values) ==
    IF modifier_values = <<>> THEN [kind |-> "list", fields |-> out]
    ELSE LET modifier_value == Strip(Head(modifier_values))
         IN  IF modifier_value = <<>> THEN [kind |-> "IndexError"]
             ELSE LET modifier == modifier_value[1]
                      field == Replace(modifier_value, modifier)
                  IN  IF modifier \notin {"+", "-"}
                      THEN Fail("Field modifiers must start with either '+' or '-' character!", <<>>)
                      ELSE IF field \notin Schema
                      THEN Fail("Unknown field '{}'!", field)
                      ELSE IF modifier = "+"
                      THEN DiffLoop(OrderedSet(out, field), Tail(modifier_values))
                      ELSE DiffLoop(OrderedDel(out, field), Tail(modifier_values))

\* FieldsType._diff_mode, lines 206-238.
DiffMode(v, p) ==
    LET out == IF p = None THEN <<>>
               ELSE OrderedFrom(StripAll(Split(p.text, ",")))
    IN  DiffLoop(out, Split(v.text, ","))

\* The for loop of convert, lines 246-251.
RECURSIVE LiteralLoop(_, _)
LiteralLoop(out, fields) ==
    IF fields = <<>> THEN [kind |-> "list", fields |-> out]
    ELSE LET field == Strip(Head(fields))
         IN  IF field \notin Schema THEN Fail("Unknown field '{}'!", field)
             ELSE LiteralLoop(Append(out, field), Tail(fields))

\* Line 241: '-' in value or '+' in value.
IsDiff(v) == "-" \in Range(v.text) \/ "+" \in Range(v.text)

InitFields ==
    /\ pc = "call"
    /\ self = [type |-> "FieldsType"]
    /\ arg \in {Str(s) : s \in StringsUpTo(FieldChars, MaxFieldsLen)}
    /\ param \in Defaults
    /\ value = arg
    /\ idx = 0
    /\ calls = <<>>
    /\ warnings = 0
    /\ result = Pending

FieldsConvertDiff ==
    /\ pc = "call"
    /\ self.type = "FieldsType"
    /\ IsDiff(value)
    /\ result' = DiffMode(value, param)
    /\ pc' = "done"
    /\ UNCHANGED <<self, arg, param, value, idx, calls, warnings>>

FieldsConvertLiteral ==
    /\ pc = "call"
    /\ self.type = "FieldsType"
    /\ ~IsDiff(value)
    /\ result' = LiteralLoop(<<>>, Split(value.text, ","))
    /\ pc' = "done"
    /\ UNCHANGED <<self, arg, param, value, idx, calls, warnings>>

NextFields == FieldsConvertDiff \/ FieldsConvertLiteral

SpecFields == InitFields /\ [][NextFields]_vars

(***************************************************************************)
(* Claims about FieldsType                                                 *)
(***************************************************************************)
\* The trimmed tokens of the raw string, in order.
DiffTokens == StripAll(Split(arg.text, ","))

\* A token that is one sign followed by a field of the schema.
IsModifierToken(t) == Len(t) >= 2 /\ t[1] \in {"+", "-"} /\ Tail(t) \in Schema

\* The default list, order preserved, later duplicates dropped.
RECURSIVE Dedup(_)
Dedup(seq) ==
    IF seq = <<>> THEN <<>>
    ELSE LET front == Dedup(SubSeq(seq, 1, Len(seq) - 1))
             last == seq[Len(seq)]
         IN  IF \E k \in 1..Len(front) : front[k] = last THEN front ELSE Append(front, last)

DefaultList == IF param = None THEN <<>> ELSE Dedup(StripAll(Split(param.text, ",")))

\* The tokens applied left to right: '+f' appends f if absent, '-f' removes f.
RECURSIVE Applied(_, _)
Applied(list, tokens) ==
    IF tokens = <<>> THEN list
    ELSE LET f == Tail(Head(tokens))
             present == \E k \in 1..Len(list) : list[k] = f
             next == IF Head(tokens)[1] = "+"
                     THEN (IF present THEN list ELSE list \o <<f>>)
                     ELSE SelectSeq(list, LAMBDA g : g # f)
         IN  Applied(next, Tail(tokens))

\* C3: in diff mode, when every token is a sign followed by a schema field,
\* the result is the de-duplicated default list with the tokens applied left
\* to right; it has no duplicates, and the fields of the default that were
\* never removed come first, in the order of the default.
C3_DiffModeResult ==
    (pc = "done" /\ IsDiff(arg) /\ \A k \in 1..Len(DiffTokens) : IsModifierToken(DiffTokens[k])) =>
        /\ result.kind = "list"
        /\ result.fields = Applied(DefaultList, DiffTokens)
        /\ \A j, k \in 1..Len(result.fields) : j # k => result.fields[j] # result.fields[k]
        /\ LET kept == SelectSeq(DefaultList,
                                 LAMBDA f : \A k \in 1..Len(DiffTokens) : DiffTokens[k] # <<"-">> \o f)
           IN  SubSeq(result.fields, 1, Len(kept)) = kept

\* C3 witness: a diff of one '+' and one '-' token was applied to a default
\* of two fields and changed it.
C3_Witness ==
    /\ pc = "done"
    /\ IsDiff(arg)
    /\ Len(DiffTokens) = 2
    /\ \A k \in 1..Len(DiffTokens) : IsModifierToken(DiffTokens[k])
    /\ DiffTokens[1][1] # DiffTokens[2][1]
    /\ Len(DefaultList) = 2
    /\ result.kind = "list"
    /\ result.fields # DefaultList

\* C8: in diff mode a token is applied only if it is exactly one sign followed
\* by a schema field; any other token ends the conversion without a field
\* list (read in the claim's favour: whatever is raised counts as the failure).
C8_TokenAcceptance ==
    (pc = "done" /\ IsDiff(arg)) =>
        IF \A k \in 1..Len(DiffTokens) : IsModifierToken(DiffTokens[k])
        THEN result.kind = "list"
        ELSE result.kind # "list"

(***************************************************************************)
(* DateTimeDurationType                                                    *)
(***************************************************************************)
DurationChars == {"1", "2", "h", "H", "s", " "}

\* MAPPING, lines 74-79.
MAPPING == [d |-> "days", h |-> "hours", m |-> "minutes", s |-> "seconds"]

\* str.lower() on the letters the regex admits under re.IGNORECASE.
Lower(c) ==
    CASE c = "D" -> "d" [] c = "H" -> "h" [] c = "M" -> "m" [] c = "S" -> "s" [] OTHER -> c

IsUnit(c) == Lower(c) \in {"d", "h", "m", "s"}

\* int() of a string of decimal digits.
DigitValue(c) ==
    CASE c = "0" -> 0 [] c = "1" -> 1 [] c = "2" -> 2 [] c = "3" -> 3 [] c = "4" -> 4
      [] c = "5" -> 5 [] c = "6" -> 6 [] c = "7" -> 7 [] c = "8" -> 8 [] c = "9" -> 9

RECURSIVE IntValue(_)
IntValue(s) ==
    IF s = <<>> THEN 0 ELSE 10 * IntValue(SubSeq(s, 1, Len(s) - 1)) + DigitValue(s[Len(s)])

\* (?!.*\2) after the unit at position q: no later character of the same
\* line is that letter again, in either case ('.' stops at a newline).
LookaheadOk(s, q) ==
    ~ \E k \in (q + 1)..Len(s) :
         /\ Lower(s[k]) = Lower(s[q])
         /\ \A j \in (q + 1)..(k - 1) : s[j] # "\n"

\* The lengths n for which (\d+)(d|h|m|s)(?!.*\2) matches at position p with
\* n digits.
DigitCounts(s, p) ==
    {n \in 1..(Len(s) - p) :
        /\ \A k \in p..(p + n - 1) : s[k] \in Digits
        /\ IsUnit(s[p + n])
        /\ LookaheadOk(s, p + n)}

Max(S) == CHOOSE n \in S : \A m \in S : m <= n

\* re.findall(SYNTAX_REGEX, value, re.IGNORECASE) from position p on: the
\* lazy +? takes one group, \d+ is greedy, \s? eats one whitespace, and the
\* search resumes after the match, or one character on when there is none.
RECURSIVE FindAll(_, _)
FindAll(s, p) ==
    IF p > Len(s) THEN <<>>
    ELSE IF DigitCounts(s, p) = {} THEN FindAll(s, p + 1)
    ELSE LET n == Max(DigitCounts(s, p))
             q == p + n
             end == IF q < Len(s) /\ s[q + 1] \in Whitespace THEN q + 1 ELSE q
         IN  <<[number |-> SubSeq(s, p, q - 1), unit |-> s[q]]>> \o FindAll(s, end + 1)

\* pendulum.duration()
ZeroDuration == [kind |-> "duration", days |-> 0, hours |-> 0, minutes |-> 0, seconds |-> 0]

\* The for loop of lines 89-92: base += pendulum.duration(**{unit: int(match[0])})
RECURSIVE Accumulate(_, _)
Accumulate(base, matches) ==
    IF matches = <<>> THEN base
    ELSE LET unit == MAPPING[Lower(Head(matches).unit)]
         IN  Accumulate([base EXCEPT ![unit] = @ + IntValue(Head(matches).number)],
                        Tail(matches))

InitDuration ==
    /\ pc = "call"
    /\ self = [type |-> "DateTimeDurationType"]
    /\ arg \in {Str(s) : s \in StringsUpTo(DurationChars, MaxDurationLen)}
    /\ param = None
    /\ value = arg
    /\ idx = 0
    /\ calls = <<>>
    /\ warnings = 0
    /\ result = Pending

\* Lines 85-86: nothing matched, DateTimeType.convert takes over.
DurationFallback ==
    /\ pc = "call"
    /\ self.type = "DateTimeDurationType"
    /\ FindAll(value.text, 1) = <<>>
    /\ result' = [kind |-> "DateTimeType.convert"]
    /\ pc' = "done"
    /\ UNCHANGED <<self, arg, param, value, idx, calls, warnings>>

\* Lines 88-94.
DurationConvert ==
    /\ pc = "call"
    /\ self.type = "DateTimeDurationType"
    /\ FindAll(value.text, 1) # <<>>
    /\ result' = Accumulate(ZeroDuration, FindAll(value.text, 1))
    /\ pc' = "done"
    /\ UNCHANGED <<self, arg, param, value, idx, calls, warnings>>

NextDuration == DurationFallback \/ DurationConvert

SpecDuration == InitDuration /\ [][NextDuration]_vars

(***************************************************************************)
(* Claims about DateTimeDurationType                                       *)
(***************************************************************************)
\* The positions of the unit letters of `<integer><unit>` occurrences of unit u.
Occurrences(s, u) == {q \in 2..Len(s) : Lower(s[q]) = u /\ s[q - 1] \in Digits}

\* The integer of the occurrence whose unit is at q: the digits before it.
RECURSIVE DigitsBefore(_, _)
DigitsBefore(s, q) ==
    IF q > 1 /\ s[q - 1] \in Digits THEN Append(DigitsBefore(s, q - 1), s[q - 1]) ELSE <<>>

\* C6: a returned duration holds, for each unit, the integer of the last
\* `<integer><unit>` occurrence of that unit in the string, and nothing for a
\* unit that does not occur.
C6_LastWins ==
    (pc = "done" /\ result.kind = "duration") =>
        \A u \in DOMAIN MAPPING :
            result[MAPPING[u]] =
                IF Occurrences(arg.text, u) = {} THEN 0
                ELSE IntValue(DigitsBefore(arg.text, Max(Occurrences(arg.text, u))))

====
